---------------------------- MODULE Spec2Model ----------------------------
(***************************************************************************)
(* alis-bot-rs: the channel-listing cache and the protocol that            *)
(* coordinates the query thread (privmsg_thread, Request::process) with    *)
(* the event loop of run_instance through Mutex<(bool, ChannelListing)>    *)
(* and a Condvar.                                                          *)
(*                                                                         *)
(* Text is a sequence of one-character strings, so that lower-casing,      *)
(* splitting, number parsing and glob matching are computed and not        *)
(* assumed.  None is a value outside the texts.                            *)
(***************************************************************************)
EXTENDS Integers, Sequences, FiniteSets, TLC

VARIABLES
    avail,        \* guard.0: the listing is available
    channels,     \* guard.1.channels
    last_fetch,   \* guard.1.last_fetch
    now,          \* the monotonic clock (Instant::now), in seconds
    queue,        \* the mpsc channel ms -> mr of private messages
    pc,           \* where privmsg_thread stands
    cur,          \* the Request being processed
    expired,      \* Request::process's local `expired`
    woken,        \* the thread blocked in cnd.wait has been woken
    result,       \* Request::process's return value (result, elapsed_time)
    loop,         \* the event loop of run_instance: "running" or "dead"
    pending,      \* LIST commands the server has yet to answer (FIFO)
    env,          \* how many inputs the environment has produced
    hist,         \* history variables the claims are stated with
    call,         \* one call of a function of lib.rs: its arguments, its result
    lock          \* who holds the mutex between two steps: "free" or "query"

vars == <<avail, channels, last_fetch, now, queue, pc, cur, expired, woken,
          result, loop, pending, env, hist, call, lock>>

\* ------------------------------------------------------------------ bounds
MaxMsgs == 2       \* private messages submitted in a session
MaxList == 2       \* RPL_LIST records the server sends for one LIST, at most
MaxTicks == 1      \* clock advances in a session

\* --------------------------------------------------------------- constants
LIST_CACHE_TIME_SECS == 300

None == <<"None">>

\* -------------------------------------------------------------------- text
UpperChars == <<"A","B","C","D","E","F","G","H","I","J","K","L","M",
                "N","O","P","Q","R","S","T","U","V","W","X","Y","Z">>
LowerChars == <<"a","b","c","d","e","f","g","h","i","j","k","l","m",
                "n","o","p","q","r","s","t","u","v","w","x","y","z">>
DigitChars == <<"0","1","2","3","4","5","6","7","8","9">>

IsDigit(c) == \E i \in 1..10 : DigitChars[i] = c
DigitVal(c) == (CHOOSE i \in 1..10 : DigitChars[i] = c) - 1

\* char::to_lowercase on ASCII
to_lowercase_char(c) ==
    IF \E i \in 1..26 : UpperChars[i] = c
    THEN LowerChars[CHOOSE i \in 1..26 : UpperChars[i] = c]
    ELSE c

\* str::to_lowercase
to_lowercase(s) == [i \in 1..Len(s) |-> to_lowercase_char(s[i])]

IsSpace(c) == c \in {" ", "\t"}

\* str::split_whitespace: the maximal runs of non-whitespace, in order
RECURSIVE SplitFrom(_, _, _, _)
SplitFrom(s, i, word, acc) ==
    IF i > Len(s)
    THEN IF word = <<>> THEN acc ELSE Append(acc, word)
    ELSE IF IsSpace(s[i])
         THEN SplitFrom(s, i + 1, <<>>,
                        IF word = <<>> THEN acc ELSE Append(acc, word))
         ELSE SplitFrom(s, i + 1, Append(word, s[i]), acc)

split_whitespace(s) == SplitFrom(s, 1, <<>>, <<>>)

\* A u32 is kept as its decimal digits without leading zeros, so that every
\* value up to u32::MAX is a value of the model.
U32_MAX == <<"4","2","9","4","9","6","7","2","9","5">>

RECURSIVE StripZeros(_)
StripZeros(s) == IF Len(s) > 1 /\ s[1] = "0" THEN StripZeros(Tail(s)) ELSE s

\* a <= b, for digit sequences without leading zeros
NumLeq(a, b) ==
    \/ Len(a) < Len(b)
    \/ /\ Len(a) = Len(b)
       /\ \/ a = b
          \/ \E i \in 1..Len(a) :
                /\ \A j \in 1..(i - 1) : a[j] = b[j]
                /\ DigitVal(a[i]) < DigitVal(b[i])

\* str::parse::<u32>: an optional "+", then one or more digits, the value at
\* most u32::MAX; None stands for Err.
parse_u32(s) ==
    LET body == IF Len(s) > 0 /\ s[1] = "+" THEN Tail(s) ELSE s
    IN  IF body = <<>> \/ \E i \in 1..Len(body) : ~IsDigit(body[i])
        THEN None
        ELSE IF NumLeq(StripZeros(body), U32_MAX) THEN StripZeros(body)
        ELSE None

\* a value that does not parse gives no bound instead of an error
parse_opt_u32_lenient(arg) ==
    [ok |-> TRUE, val |-> IF arg = None THEN None ELSE parse_u32(arg)]

\* parse_opt_u32 (lib.rs): [ok, val]; val = None is Ok(None)
parse_opt_u32(arg) ==
    IF arg = None THEN [ok |-> TRUE, val |-> None]
    ELSE [ok |-> parse_u32(arg) # None, val |-> parse_u32(arg)]

\* ------------------------------------------------------------ glob::Pattern
\* Pattern::new fails on an unclosed "[", on three or more "*" in a row, and
\* on "**" that is not a whole path component.  Character classes are not
\* modelled: a pattern holding "[" counts as unclosed.
PatternValid(p) ==
    /\ \A i \in 1..Len(p) : p[i] # "["
    /\ \A i \in 1..Len(p) :
         (i < Len(p) /\ p[i] = "*" /\ p[i + 1] = "*") =>
            /\ (i = 1 \/ p[i - 1] = "/")
            /\ (i + 1 = Len(p) \/ p[i + 2] = "/")

\* Pattern::matches with the default MatchOptions (case sensitive)
RECURSIVE GlobFrom(_, _, _, _)
GlobFrom(p, s, i, j) ==
    IF i > Len(p) THEN j > Len(s)
    ELSE IF p[i] = "*"
         THEN \E k \in j..(Len(s) + 1) : GlobFrom(p, s, i + 1, k)
    ELSE IF p[i] = "?"
         THEN j <= Len(s) /\ GlobFrom(p, s, i + 1, j + 1)
    ELSE j <= Len(s) /\ s[j] = p[i] /\ GlobFrom(p, s, i + 1, j + 1)

Pattern_matches(p, s) == GlobFrom(p, s, 1, 1)


\* ----------------------------------------------------------------- Channel
\* Channel::new: [ok, chan] from an RPL_LIST parameter vector
Channel_new(v) ==
    IF Len(v) = 4 /\ parse_u32(v[3]) # None
    THEN [ok |-> TRUE,
          chan |-> [name |-> v[2], topic |-> v[4], users |-> parse_u32(v[3])]]
    ELSE [ok |-> FALSE,
          chan |-> [name |-> <<>>, topic |-> <<>>, users |-> <<"0">>]]

\* the bound --max is exclusive
matches_exclusive_max(chan, request) ==
    /\ Pattern_matches(request.chan_pattern, chan.name)
    /\ (request.topic_pattern # None =>
            Pattern_matches(request.topic_pattern, chan.topic))
    /\ (request.max_users # None =>
            NumLeq(chan.users, request.max_users)
                /\ chan.users # request.max_users)
    /\ (request.min_users # None => NumLeq(request.min_users, chan.users))

\* Channel::matches
matches(chan, request) ==
    /\ Pattern_matches(request.chan_pattern, chan.name)
    /\ (request.topic_pattern # None =>
            Pattern_matches(request.topic_pattern, chan.topic))
    /\ (request.max_users # None => NumLeq(chan.users, request.max_users))
    /\ (request.min_users # None => NumLeq(request.min_users, chan.users))

\* ----------------------------------------------------------------- Request
NoRequest ==
    [chan_pattern |-> <<>>, topic_pattern |-> None, max_users |-> None,
     min_users |-> None, force_update |-> FALSE]

\* Request::new: tag "ok" (Ok), "err" (Err) or "panic" (an unwrap of an
\* invalid glob pattern)
Request_new(chan_pattern, topic_pattern, max_users, min_users, force_update) ==
    IF chan_pattern = None THEN [tag |-> "err", req |-> NoRequest]
    ELSE IF ~PatternValid(chan_pattern) THEN [tag |-> "panic", req |-> NoRequest]
    ELSE IF topic_pattern # None /\ ~PatternValid(topic_pattern)
         THEN [tag |-> "panic", req |-> NoRequest]
    ELSE IF ~parse_opt_u32(max_users).ok THEN [tag |-> "err", req |-> NoRequest]
    ELSE IF ~parse_opt_u32(min_users).ok THEN [tag |-> "err", req |-> NoRequest]
    ELSE [tag |-> "ok",
          req |-> [chan_pattern |-> chan_pattern,
                   topic_pattern |-> topic_pattern,
                   max_users |-> parse_opt_u32(max_users).val,
                   min_users |-> parse_opt_u32(min_users).val,
                   force_update |-> force_update]]

\* ------------------------------------------------- clap: build_list_app
w_list == <<"l","i","s","t">>
w_help == <<"h","e","l","p">>
w_topic == <<"t","o","p","i","c">>
w_min == <<"m","i","n">>
w_max == <<"m","a","x">>
w_force == <<"f","o","r","c","e">>

StartsWith(t, pre) ==
    Len(t) >= Len(pre) /\ SubSeq(t, 1, Len(pre)) = pre

\* position of the first "=" of t, or 0
EqPos(t) ==
    IF \E i \in 1..Len(t) : t[i] = "="
    THEN CHOOSE i \in 1..Len(t) : t[i] = "=" /\ \A j \in 1..(i - 1) : t[j] # "="
    ELSE 0

NoMatches ==
    [pattern |-> None, topic |-> None, max |-> None, min |-> None,
     force |-> FALSE, err |-> FALSE]

Failed(m) == [m EXCEPT !.err = TRUE]

\* an occurrence of a value-taking option; a second occurrence is an error
SetOpt(m, name, val) ==
    IF name = w_topic
    THEN IF m.topic # None THEN Failed(m) ELSE [m EXCEPT !.topic = val]
    ELSE IF name = w_min
    THEN IF m.min # None THEN Failed(m) ELSE [m EXCEPT !.min = val]
    ELSE IF name = w_max
    THEN IF m.max # None THEN Failed(m) ELSE [m EXCEPT !.max = val]
    ELSE Failed(m)

SetForce(m) == IF m.force THEN Failed(m) ELSE [m EXCEPT !.force = TRUE]

\* a token that can be taken as the value of an option: not a flag
IsValueToken(t) == ~(Len(t) > 1 /\ t[1] = "-")

\* The arguments of the "list" subcommand, token i onwards: the positional
\* pattern (index 1, required), -t/--topic, --min, --max (one value each,
\* given as the next token or after "="), -f/--force.
RECURSIVE ListArgs(_, _, _, _)
ListArgs(toks, i, m, trailing) ==
    IF m.err THEN m
    ELSE IF i > Len(toks)
    THEN IF m.pattern = None THEN Failed(m) ELSE m
    ELSE LET t == toks[i]
             positional ==
                 IF m.pattern # None THEN Failed(m)
                 ELSE ListArgs(toks, i + 1, [m EXCEPT !.pattern = t], trailing)
         IN
         IF trailing THEN positional
         ELSE IF t = <<"-","-">> THEN ListArgs(toks, i + 1, m, TRUE)
         ELSE IF StartsWith(t, <<"-","-">>)
         THEN LET e == EqPos(t)
                  name == IF e = 0 THEN SubSeq(t, 3, Len(t))
                          ELSE SubSeq(t, 3, e - 1)
              IN  IF name \in {w_topic, w_min, w_max}
                  THEN IF e # 0
                       THEN ListArgs(toks, i + 1,
                                SetOpt(m, name, SubSeq(t, e + 1, Len(t))),
                                trailing)
                       ELSE IF i + 1 > Len(toks) \/ ~IsValueToken(toks[i + 1])
                       THEN Failed(m)
                       ELSE ListArgs(toks, i + 2,
                                SetOpt(m, name, toks[i + 1]), trailing)
                  ELSE IF name = w_force /\ e = 0
                  THEN ListArgs(toks, i + 1, SetForce(m), trailing)
                  ELSE Failed(m)
         ELSE IF Len(t) > 1 /\ t[1] = "-"
         THEN \* a cluster of short flags: any number of f, then at most one
              \* t, which takes the rest of the token or the next token
              LET fs == CHOOSE n \in 0..(Len(t) - 1) :
                            /\ \A k \in 2..(n + 1) : t[k] = "f"
                            /\ (n + 2 <= Len(t) => t[n + 2] # "f")
                  mf == IF fs = 0 THEN m
                        ELSE IF fs = 1 THEN SetForce(m) ELSE Failed(m)
              IN  IF fs + 1 = Len(t) THEN ListArgs(toks, i + 1, mf, trailing)
                  ELSE IF t[fs + 2] # "t" THEN Failed(m)
                  ELSE IF fs + 2 < Len(t)
                  THEN LET rest == SubSeq(t, fs + 3, Len(t))
                           val == IF rest[1] = "=" THEN Tail(rest) ELSE rest
                       IN  ListArgs(toks, i + 1, SetOpt(mf, w_topic, val),
                                    trailing)
                  ELSE IF i + 1 > Len(toks) \/ ~IsValueToken(toks[i + 1])
                  THEN Failed(m)
                  ELSE ListArgs(toks, i + 2,
                                SetOpt(mf, w_topic, toks[i + 1]), trailing)
         ELSE positional

\* the first token is taken for the subcommand whatever it is
get_request_from_args_any_command(args) ==
    LET m == ListArgs(args, 2, NoMatches, FALSE)
    IN  IF m.err THEN [tag |-> "err", req |-> NoRequest]
        ELSE Request_new(m.pattern, m.topic, m.max, m.min, m.force)

\* the positional pattern has to come right after the subcommand
get_request_from_args_pattern_first(args) ==
    IF Len(args) < 2 \/ args[1] # w_list \/ ~IsValueToken(args[2])
    THEN [tag |-> "err", req |-> NoRequest]
    ELSE LET m == ListArgs(args, 2, NoMatches, FALSE)
         IN  IF m.err THEN [tag |-> "err", req |-> NoRequest]
             ELSE Request_new(m.pattern, m.topic, m.max, m.min, m.force)

\* get_request_from_args: the first token must be the subcommand.  Without
\* any token clap reports no error and no subcommand: unreachable!() panics.
get_request_from_args(args) ==
    IF args = <<>> THEN [tag |-> "panic", req |-> NoRequest]
    ELSE IF args[1] # w_list THEN [tag |-> "err", req |-> NoRequest]
    ELSE LET m == ListArgs(args, 2, NoMatches, FALSE)
         IN  IF m.err THEN [tag |-> "err", req |-> NoRequest]
             ELSE Request_new(m.pattern, m.topic, m.max, m.min, m.force)

\* a list command that does not parse is processed as "list * -f"
privmsg_kind_usage_as_query(msg) ==
    LET vec == split_whitespace(to_lowercase(msg))
    IN  IF vec = <<>> THEN [tag |-> "panic", req |-> NoRequest]
        ELSE IF vec[1] = w_list
        THEN LET r == get_request_from_args(vec)
             IN  IF r.tag = "err"
                 THEN [tag |-> "list",
                       req |-> [NoRequest EXCEPT !.chan_pattern = <<"*">>,
                                                 !.force_update = TRUE]]
                 ELSE IF r.tag = "panic" THEN r
                 ELSE [tag |-> "list", req |-> r.req]
        ELSE IF vec[1] = w_help THEN [tag |-> "usage", req |-> NoRequest]
        ELSE [tag |-> "introduce", req |-> NoRequest]

\* privmsg_parse up to the call of Request::process: what becomes of a
\* message.  "panic": vec[0] of an empty vector, or Request::new's unwrap.
privmsg_kind(msg) ==
    LET vec == split_whitespace(to_lowercase(msg))
    IN  IF vec = <<>> THEN [tag |-> "panic", req |-> NoRequest]
        ELSE IF vec[1] = w_list
        THEN LET r == get_request_from_args(vec)
             IN  IF r.tag = "err" THEN [tag |-> "usage", req |-> NoRequest]
                 ELSE IF r.tag = "panic" THEN r
                 ELSE [tag |-> "list", req |-> r.req]
        ELSE IF vec[1] = w_help THEN [tag |-> "usage", req |-> NoRequest]
        ELSE [tag |-> "introduce", req |-> NoRequest]


\* ------------------------------------------------------- ChannelListing
\* the cache expires at 300 seconds already
has_expired_inclusive(t, fetched) == t - fetched >= LIST_CACHE_TIME_SECS

\* ChannelListing::has_expired
has_expired(t, fetched) == t - fetched > LIST_CACHE_TIME_SECS

\* ChannelListing::get_elapsed_time
get_elapsed_time(t, fetched) == t - fetched

\* the record is put at the front instead of the end
add_channel_front(chans, v) ==
    IF Channel_new(v).ok THEN <<Channel_new(v).chan>> \o chans ELSE chans

\* a record that does not parse is pushed as the default channel
add_channel_unchecked(chans, v) == Append(chans, Channel_new(v).chan)

\* ChannelListing::add_channel: the record is pushed if it parses, dropped
\* otherwise
add_channel(chans, v) ==
    IF Channel_new(v).ok THEN Append(chans, Channel_new(v).chan) ELSE chans

\* format_duration: "{}min{}s" or "{}s", kept as its parts
format_duration(secs) ==
    LET seconds == secs % 60
        minutes == (secs \div 60) % 60
    IN  IF minutes > 0 THEN <<minutes, "min", seconds, "s">>
        ELSE <<seconds, "s">>

\* impl Display for Channel: "{: <25} {}: {}", kept as its three parts
RECURSIVE PadRight(_, _)
PadRight(s, n) == IF Len(s) >= n THEN s ELSE PadRight(Append(s, " "), n)

Channel_to_string(chan) == <<PadRight(chan.name, 25), chan.users, chan.topic>>

\* no entry is filtered out
FilterMap_all(chans, request, i) ==
    [k \in 1..Len(chans) |-> Channel_to_string(chans[k])]

\* Request::process, lines 123-127: filter, then map to_string
RECURSIVE FilterMap(_, _, _)
FilterMap(chans, request, i) ==
    IF i > Len(chans) THEN <<>>
    ELSE IF matches(chans[i], request)
         THEN <<Channel_to_string(chans[i])>> \o FilterMap(chans, request, i + 1)
         ELSE FilterMap(chans, request, i + 1)

\* every query starts a refresh
needs_refresh_always(request, exp) == TRUE

\* the force flag is ignored
needs_refresh_expired_only(request, exp) == exp

\* Request::process, line 102: whether the query starts a refresh
needs_refresh(request, exp) == request.force_update \/ exp

\* the wait ends whatever guard.0 is
wait_over_always(a) == TRUE

\* Request::process, line 114: the condition that ends the wait
wait_over(a) == a

\* ----------------------------------------------------------------- inputs
sp == <<" ">>
MsgListForce == w_list \o sp \o <<"*">> \o sp \o <<"-","f">>
MsgListMin == <<"L","I","S","T">> \o sp \o <<"#","a","*">> \o sp
                 \o <<"-","-","m","i","n","=","5">>
MsgHi == <<"h","i">>
MsgEmpty == <<>>
MsgNoPattern == w_list \o sp \o <<"-","f">>
MsgBadGlob == w_list \o sp \o <<"[">>

MsgTexts ==
    {MsgListForce, MsgListMin, MsgHi, MsgEmpty, MsgNoPattern, MsgBadGlob}

\* privmsg_parse's reading of each text, computed once
MsgKind == [m \in MsgTexts |-> privmsg_kind(m)]

\* RPL_LIST parameter vectors: [marker, name, count, topic]
RecA == << <<"b">>, <<"#","a">>, <<"4">>, <<"t">> >>
RecB == << <<"b">>, <<"#","a","b">>, <<"1","2">>, <<>> >>
RecShort == << <<"b">>, <<"#","c">>, <<"4">> >>
RecBadCount == << <<"b">>, <<"#","d">>, <<"-","1">>, <<"t">> >>

\* The server's listing: the k-th record it sends in answer to a LIST.  It
\* may end the listing (RPL_LISTEND) after any number of them.
ServerListing == <<RecA, RecB, RecShort>>

\* the listing it sends in answer to every other LIST, the first one included
ServerListingOdd == <<RecA, RecShort, RecBadCount>>

ServerRecord(id, k) ==
    LET l == IF id % 2 = 1 THEN ServerListingOdd ELSE ServerListing
    IN  l[((k - 1) % Len(l)) + 1]

ServerRecords == {ServerRecord(id, k) : id \in 1..2, k \in 1..MaxList}

\* by how much the clock advances between two steps
TickSteps == {LIST_CACHE_TIME_SECS + 1}

\* ------------------------------------------------------------------ state
NoResult == [lines |-> <<>>, elapsed |-> 0]

NoPrev == [overlap |-> FALSE, emitted |-> 0, completed |-> FALSE]

\* no function is being called
NoCall == [fn |-> "none", arg |-> <<>>, ret |-> <<>>, done |-> FALSE]

\* the mutex built as (true, listing)
InitAvailabilityTrue == TRUE

\* run_instance, lines 141-150: ChannelListing::new() and (false, listing)
InitAvailability == FALSE

\* the state of run_instance when the event loop starts
InitInstance ==
    /\ lock = "free"
    /\ avail = InitAvailability
    /\ channels = <<>>
    /\ last_fetch = 0
    /\ now = 0
    /\ queue = <<>>
    /\ pc = "idle"
    /\ cur = NoRequest
    /\ expired = FALSE
    /\ woken = FALSE
    /\ result = NoResult
    /\ loop = "running"
    /\ pending = <<>>
    /\ env = [msgs |-> 0, welcomed |-> FALSE, ticks |-> 0]
    /\ hist = [nReq |-> 0,          \* LIST commands sent so far
               chanReq |-> <<>>,    \* per entry of channels: the LIST it answers
               stampReq |-> 0,      \* the LIST whose cycle stamped last_fetch
               periodReqs |-> 0,    \* LISTs sent in this unavailable period
               arrived |-> <<>>,    \* well-formed records since the last reset
               lastComplete |-> <<>>, \* channels at the last RPL_LISTEND
               qEmitted |-> 0,      \* LISTs sent by the query in process
               qWaited |-> FALSE,   \* the query in process blocked in wait
               qCompleted |-> FALSE, \* RPL_LISTEND processed since it initiated
               sinceRead |-> FALSE, \* RPL_LISTEND processed since it read
               conc |-> FALSE,      \* it and the previous query: both force,
                                    \* both submitted before either returned
               prev |-> NoPrev,     \* the previous query of such a pair: the
                                    \* LISTs it sent, and whether RPL_LISTEND
                                    \* was processed since it read the cache
               handled |-> "none"]  \* what became of the last message taken
                                    \* from the queue, if it was not a query

Init == InitInstance /\ call = NoCall

\* two LIST commands are sent
send_list_command_twice(reqs, id, by) ==
    Append(Append(reqs, [id |-> id, by |-> by, n |-> 0]),
           [id |-> id, by |-> by, n |-> 0])

\* send_list_command: the LIST goes to the server, which answers in order
\* (id: its number; by: who sent it; n: the records sent in answer so far)
send_list_command(reqs, id, by) == Append(reqs, [id |-> id, by |-> by, n |-> 0])


\* a well-formed record: four fields, the count a decimal u32
WellFormed(v) ==
    /\ Len(v) = 4
    /\ v[3] # <<>>
    /\ \A i \in 1..Len(v[3]) : IsDigit(v[3][i])
    /\ NumLeq(StripZeros(v[3]), U32_MAX)

\* the message overtakes the ones that wait in the channel
ms_send_front(q, msg) == <<msg>> \o q

\* mpsc Sender::send: the message is queued behind the ones that wait
ms_send(q, msg) == Append(q, msg)

\* the entries are kept
reset_keeps_entries(chans) == chans

\* ChannelListing::reset: channels = Vec::new() (set_timestamp is in the
\* step that calls it)
reset(chans) == <<>>

\* the initiation leaves guard.0 set
MadeUnavailableAsTrue == TRUE

\* Request::process, line 106: guard.0 = false
MadeUnavailable == FALSE

\* the waiting thread keeps the mutex
Condvar_wait_holding(holder) == holder

\* Condvar::wait: the mutex is released while the thread is blocked; the
\* result is who holds it meanwhile
Condvar_wait(holder) == "free"

\* a lost notification: the thread in cnd.wait is not woken
notify_none(w, at) == w

\* Condvar::notify_all: the thread blocked in cnd.wait is woken
notify_all(w, at) == IF at = "waiting" THEN TRUE ELSE w

\* -------------------------------------------- the event loop (main.rs)
\* Command::PRIVMSG addressed to the bot: ms.send(message).unwrap().  Once
\* privmsg_thread has panicked the receiver is gone and the unwrap panics.
\* The server routes messages to the bot only once it is registered, that is
\* after RPL_WELCOME.
OnPrivmsg(msg) ==
    /\ loop = "running"
    /\ env.welcomed
    /\ env.msgs < MaxMsgs
    /\ env' = [env EXCEPT !.msgs = @ + 1]
    /\ IF pc = "dead"
       THEN loop' = "dead" /\ UNCHANGED queue
       ELSE queue' = ms_send(queue, msg) /\ UNCHANGED loop
    /\ UNCHANGED <<call, lock, avail, channels, last_fetch, now, pc, cur, expired, woken,
                   result, pending, hist>>

\* Response::RPL_LIST: listing.add_channel(v) under the lock.  The server
\* sends the records of the oldest unanswered LIST.
OnEntryRecord(v) ==
    /\ loop = "running"
    /\ lock = "free"
    /\ pending # <<>>
    /\ pending[1].n < MaxList
    /\ v = ServerRecord(pending[1].id, pending[1].n + 1)
    /\ channels' = add_channel(channels, v)
    /\ pending' = [pending EXCEPT ![1].n = @ + 1]
    /\ hist' = [hist EXCEPT
                  !.chanReq = IF Len(channels') > Len(channels)
                              THEN Append(@, pending[1].id) ELSE @,
                  !.arrived = IF WellFormed(v) THEN Append(@, v) ELSE @]
    /\ UNCHANGED <<call, lock, avail, last_fetch, now, queue, pc, cur, expired, woken,
                   result, loop, env>>

\* Response::RPL_LISTEND: set_timestamp, guard.0 = true, cnd.notify_all()
OnListingComplete ==
    /\ loop = "running"
    /\ lock = "free"
    /\ pending # <<>>
    /\ last_fetch' = now
    /\ avail' = TRUE
    /\ woken' = notify_all(woken, pc)
    /\ pending' = Tail(pending)
    /\ hist' = [hist EXCEPT !.stampReq = pending[1].id,
                            !.periodReqs = 0,
                            !.lastComplete = channels,
                            !.qCompleted = (hist.qEmitted > 0),
                            !.sinceRead = (pc = "reply"),
                            !.prev = [@ EXCEPT !.completed = @ \/ hist.prev.overlap]]
    /\ UNCHANGED <<call, lock, channels, now, queue, pc, cur, expired, result, loop, env>>

\* Response::RPL_WELCOME: send_list_command(&client).  The server sends it
\* once, when the registration completes.
OnWelcome ==
    /\ loop = "running"
    /\ ~env.welcomed
    /\ env' = [env EXCEPT !.welcomed = TRUE]
    /\ pending' = send_list_command(pending, hist.nReq + 1, "welcome")
    /\ hist' = [hist EXCEPT !.nReq = @ + 1,
                            !.periodReqs = IF avail THEN @ ELSE @ + 1]
    /\ UNCHANGED <<call, lock, avail, channels, last_fetch, now, queue, pc, cur, expired,
                   woken, result, loop>>

\* time passes
Tick(d) ==
    /\ env.ticks < MaxTicks
    /\ env' = [env EXCEPT !.ticks = @ + 1]
    /\ now' = now + d
    /\ UNCHANGED <<call, lock, avail, channels, last_fetch, queue, pc, cur, expired, woken,
                   result, loop, pending, hist>>

\* ------------------------------------------ privmsg_thread (main.rs, lib.rs)
\* mr.recv() and privmsg_parse down to the call of Request::process
QRecvList ==
    /\ pc = "idle"
    /\ queue # <<>>
    /\ MsgKind[Head(queue)].tag = "list"
    /\ queue' = Tail(queue)
    /\ cur' = MsgKind[Head(queue)].req
    /\ pc' = "check"
    /\ hist' = [hist EXCEPT !.conc = hist.prev.overlap, !.handled = "none"]
    /\ UNCHANGED <<call, lock, avail, channels, last_fetch, now, expired, woken, result,
                   loop, pending, env>>

\* a list command that does not parse, or the help command: the usage message
QRecvUsage ==
    /\ pc = "idle"
    /\ queue # <<>>
    /\ MsgKind[Head(queue)].tag = "usage"
    /\ queue' = Tail(queue)
    /\ hist' = [hist EXCEPT !.handled = "usage"]
    /\ UNCHANGED <<call, lock, avail, channels, last_fetch, now, pc, cur, expired, woken,
                   result, loop, pending, env>>

\* any other first word: the introduction
QRecvIntroduce ==
    /\ pc = "idle"
    /\ queue # <<>>
    /\ MsgKind[Head(queue)].tag = "introduce"
    /\ queue' = Tail(queue)
    /\ hist' = [hist EXCEPT !.handled = "introduce"]
    /\ UNCHANGED <<call, lock, avail, channels, last_fetch, now, pc, cur, expired, woken,
                   result, loop, pending, env>>

\* vec[0] of an empty vector, or an unwrap in Request::new: the thread ends
QRecvPanic ==
    /\ pc = "idle"
    /\ queue # <<>>
    /\ MsgKind[Head(queue)].tag = "panic"
    /\ queue' = <<>>
    /\ pc' = "dead"
    /\ hist' = [hist EXCEPT !.handled = "panic"]
    /\ UNCHANGED <<call, lock, avail, channels, last_fetch, now, cur, expired, woken,
                   result, loop, pending, env>>

\* Request::process, lines 96-102: has_expired under the lock, then the test
QCheck ==
    /\ pc = "check"
    /\ lock = "free"
    /\ expired' = has_expired(now, last_fetch)
    /\ pc' = IF needs_refresh(cur, expired') THEN "init" ELSE "read"
    /\ UNCHANGED <<call, lock, avail, channels, last_fetch, now, queue, cur, woken, result,
                   loop, pending, env, hist>>

\* Request::process, lines 103-110: guard.0 = false, listing.reset(),
\* send_list_command, in one critical section
QInitiate ==
    /\ pc = "init"
    /\ lock = "free"
    /\ avail' = MadeUnavailable
    /\ channels' = reset(channels)
    /\ last_fetch' = now
    /\ pending' = send_list_command(pending, hist.nReq + 1, "query")
    /\ pc' = "lockwait"
    /\ hist' = [hist EXCEPT !.nReq = @ + 1,
                            !.chanReq = <<>>,
                            !.arrived = <<>>,
                            !.lastComplete = <<>>,
                            !.stampReq = hist.nReq + 1,
                            !.periodReqs = IF avail THEN 1 ELSE @ + 1,
                            !.qEmitted = @ + 1,
                            !.qCompleted = FALSE]
    /\ UNCHANGED <<call, lock, now, queue, cur, expired, woken, result, loop, env>>

\* Request::process, lines 112-114: lock, and the first test of the loop
QLockWait ==
    /\ pc = "lockwait"
    /\ lock = "free"
    /\ IF wait_over(avail)
       THEN pc' = "read" /\ lock' = "free" /\ UNCHANGED hist
       ELSE /\ pc' = "waiting"
            /\ lock' = Condvar_wait("query")
            /\ hist' = [hist EXCEPT !.qWaited = TRUE]
    /\ woken' = FALSE
    /\ UNCHANGED <<call, avail, channels, last_fetch, now, queue, cur, expired,
                   result, loop, pending, env>>

\* a spurious wakeup of cnd.wait
QSpurious ==
    /\ pc = "waiting"
    /\ ~woken
    /\ woken' = TRUE
    /\ UNCHANGED <<call, lock, avail, channels, last_fetch, now, queue, pc, cur,
                   expired, result, loop, pending, env, hist>>

\* Request::process, lines 114-116: cnd.wait returns with the lock held and
\* the loop tests guard.0 again
QWake ==
    /\ pc = "waiting"
    /\ woken
    /\ woken' = FALSE
    /\ pc' = IF wait_over(avail) THEN "read" ELSE "waiting"
    /\ lock' = IF wait_over(avail) THEN "free" ELSE Condvar_wait("query")
    /\ UNCHANGED <<call, avail, channels, last_fetch, now, queue, cur, expired,
                   result, loop, pending, env, hist>>

\* Request::process, lines 118-130: the entries and the age, one lock hold
QRead ==
    /\ pc = "read"
    /\ lock = "free"
    /\ result' = [lines |-> FilterMap(channels, cur, 1),
                  elapsed |-> get_elapsed_time(now, last_fetch)]
    /\ pc' = "reply"
    /\ UNCHANGED <<call, lock, avail, channels, last_fetch, now, queue, cur, expired,
                   woken, loop, pending, env, hist>>

\* privmsg_parse, lines 177-188: the result lines and the summary are sent,
\* and the thread goes back to mr.recv()
QReply ==
    /\ pc = "reply"
    /\ pc' = "idle"
    /\ cur' = NoRequest
    /\ expired' = FALSE
    /\ result' = NoResult
    /\ hist' = [hist EXCEPT
                  !.prev = IF /\ cur.force_update
                              /\ queue # <<>>
                              /\ MsgKind[Head(queue)].tag = "list"
                              /\ MsgKind[Head(queue)].req.force_update
                           THEN [overlap |-> TRUE, emitted |-> hist.qEmitted,
                                 completed |-> hist.sinceRead]
                           ELSE NoPrev,
                  !.qEmitted = 0,
                  !.qWaited = FALSE,
                  !.qCompleted = FALSE,
                  !.sinceRead = FALSE,
                  !.conc = FALSE]
    /\ UNCHANGED <<call, lock, avail, channels, last_fetch, now, queue, woken, loop,
                   pending, env>>

QThread ==
    \/ QRecvList \/ QRecvUsage \/ QRecvIntroduce \/ QRecvPanic
    \/ QCheck \/ QInitiate \/ QLockWait \/ QWake \/ QRead \/ QReply

EventLoop ==
    \/ \E msg \in MsgTexts : OnPrivmsg(msg)
    \/ \E v \in ServerRecords : OnEntryRecord(v)
    \/ OnListingComplete
    \/ OnWelcome

Next ==
    \/ EventLoop
    \/ QThread
    \/ QSpurious
    \/ \E d \in TickSteps : Tick(d)

Spec == Init /\ [][Next]_vars

\* the scheduler runs privmsg_thread whenever it can take a step
FairSpec == Spec /\ WF_vars(QThread)


\* ---------------------------------------- calls of the functions of lib.rs
\* Each function is called once on arguments drawn from a finite set: call
\* holds the arguments and, once the call is done, the result.

\* the variables of run_instance, which a call of a function leaves alone
instance == <<avail, channels, last_fetch, now, queue, pc, cur, expired,
              woken, result, loop, pending, env, hist, lock>>

ToCall(f, a) == [fn |-> f, arg |-> a, ret |-> <<>>, done |-> FALSE]

\* Channel::matches: the channels and the requests it is called on
Entries ==
    {[name |-> n, topic |-> t, users |-> u] :
        n \in {<<"#","a">>, <<"#","a","b">>},
        t \in {<<>>, <<"t">>},
        u \in {<<"0">>, <<"2">>, <<"3">>, <<"1","0">>}}

Requests ==
    {[chan_pattern |-> c, topic_pattern |-> t, max_users |-> mx,
      min_users |-> mn, force_update |-> FALSE] :
        c \in {<<"*">>, <<"#","a">>, <<"#","?","b">>},
        t \in {None, <<"t","*">>, <<"*">>},
        mx \in {None, <<"2">>, <<"9">>},
        mn \in {None, <<"2">>, <<"3">>}}

MatchesCalls == {ToCall("matches", <<e, q>>) : e \in Entries, q \in Requests}

CallMatches ==
    /\ call.fn = "matches"
    /\ ~call.done
    /\ call' = [call EXCEPT !.ret = matches(call.arg[1], call.arg[2]),
                            !.done = TRUE]
    /\ UNCHANGED instance

\* ChannelListing::has_expired: last_fetch, and the seconds gone by since
ExpiryAges == {0, 1, 299, 300, 301, 600}

HasExpiredCalls ==
    {ToCall("has_expired", <<f + a, f>>) : f \in {0, 7}, a \in ExpiryAges}

CallHasExpired ==
    /\ call.fn = "has_expired"
    /\ ~call.done
    /\ call' = [call EXCEPT !.ret = has_expired(call.arg[1], call.arg[2]),
                            !.done = TRUE]
    /\ UNCHANGED instance

\* format_duration: the ages of the cache, in seconds
CacheAges ==
    {0, 1, 59, 60, 61, 119, 120, 299, 300, 301, 3599, 3600, 3601, 3660, 7325}

FormatDurationCalls == {ToCall("format_duration", d) : d \in CacheAges}

CallFormatDuration ==
    /\ call.fn = "format_duration"
    /\ ~call.done
    /\ call' = [call EXCEPT !.ret = format_duration(call.arg), !.done = TRUE]
    /\ UNCHANGED instance

\* privmsg_parse and the filter of Request::process: whether the channel is
\* among the results of the message
privmsg_matches(chan, msg) ==
    /\ privmsg_kind(msg).tag = "list"
    /\ matches(chan, privmsg_kind(msg).req)

CaseEntries ==
    {[name |-> n, topic |-> t, users |-> <<"4">>] :
        n \in {<<"#","a">>, <<"#","A">>, <<"#","b">>},
        t \in {<<"t">>, <<"T">>}}

CaseTexts ==
    {w_list \o sp \o <<"#","a","*">>,
     <<"L","I","S","T">> \o sp \o <<"#","A","*">>,
     w_list \o sp \o <<"*">> \o sp \o <<"-","t">> \o sp \o <<"t">>,
     w_list \o sp \o <<"*">> \o sp \o <<"-","t">> \o sp \o <<"T">>,
     w_list \o sp \o <<"#","b">>}

PrivmsgMatchesCalls ==
    {ToCall("privmsg_matches", <<e1, e2, t1, t2>>) :
        e1 \in CaseEntries, e2 \in CaseEntries,
        t1 \in CaseTexts, t2 \in CaseTexts}

\* the first channel and the second one on the first text, and the first
\* channel on the second text
CallPrivmsgMatches ==
    /\ call.fn = "privmsg_matches"
    /\ ~call.done
    /\ call' = [call EXCEPT
                  !.ret = <<privmsg_matches(call.arg[1], call.arg[3]),
                            privmsg_matches(call.arg[2], call.arg[3]),
                            privmsg_matches(call.arg[1], call.arg[4])>>,
                  !.done = TRUE]
    /\ UNCHANGED instance

\* get_request_from_args: token sequences put together from items, an item
\* being the positional pattern or an option with its value
w_pat == <<"*","a">>
ItemPattern == <<w_pat>>
ItemTopic == << <<"-","t">>, <<"x">> >>
ItemMin == << <<"-","-","m","i","n","=","2">> >>
ItemMax == << <<"-","-","m","a","x">>, <<"5">> >>
ItemForce == << <<"-","f">> >>
OptionItems == {ItemTopic, ItemMin, ItemMax, ItemForce}
ExtraPositionals == {<< <<"b">> >>, << <<"5">> >>}
UnknownFlags == {<< <<"-","-","f","o","o">> >>, << <<"-","x">> >>}
BareOptions ==
    {<< <<"-","t">> >>, << <<"-","-","t","o","p","i","c">> >>,
     << <<"-","-","m","i","n">> >>, << <<"-","-","m","a","x">> >>}
NotListPrefixes ==
    {<< <<"n","o","t">> >>, << <<"-","f">> >>, ItemTopic,
     << <<"L","I","S","T">> >>, << w_help >>}

\* the items of a token sequence, at most
MaxItems == 3

\* the sequences of at most n distinct items of S
Orderings(S, n) ==
    {o \in UNION {[1..k -> S] : k \in 0..n} :
        \A i, j \in 1..Len(o) : o[i] = o[j] => i = j}

Has(o, item) == \E i \in 1..Len(o) : o[i] = item

HasOneOf(o, S) == \E i \in 1..Len(o) : o[i] \in S

RECURSIVE Flat(_)
Flat(o) == IF o = <<>> THEN <<>> ELSE Head(o) \o Flat(Tail(o))

ArgsCall(k, a, its) ==
    ToCall("get_request_from_args", [kind |-> k, args |-> a, items |-> its])

\* every ordering of the pattern and of any of the four options
OrderCalls ==
    {ArgsCall("order", <<w_list>> \o Flat(o), {o[i] : i \in 1..Len(o)}) :
        o \in {x \in Orderings(OptionItems \cup {ItemPattern},
                                 Cardinality(OptionItems) + 1) :
                  Has(x, ItemPattern)}}

\* token sequences that do not start with the list command
FirstNotListCalls ==
    {ArgsCall("first_not_list", pre \o Flat(o), {}) :
        pre \in NotListPrefixes,
        o \in {x \in Orderings(OptionItems \cup {ItemPattern}, MaxItems) :
                  Has(x, ItemPattern)}}
    \cup
    {ArgsCall("first_not_list", pre \o <<w_list>> \o Flat(o), {}) :
        pre \in NotListPrefixes,
        o \in {x \in Orderings(OptionItems \cup {ItemPattern}, MaxItems) :
                  Has(x, ItemPattern)}}

\* the list command without a positional pattern
NoPositionalCalls ==
    {ArgsCall("no_positional", <<w_list>> \o Flat(o), {}) :
        o \in Orderings(OptionItems, MaxItems)}

\* the list command with two positional arguments
SecondPositionalCalls ==
    {ArgsCall("second_positional", <<w_list>> \o Flat(o), {}) :
        o \in {x \in Orderings(OptionItems \cup {ItemPattern}
                                   \cup ExtraPositionals, MaxItems) :
                  Has(x, ItemPattern) /\ HasOneOf(x, ExtraPositionals)}}

\* the list command with a flag that build_list_app does not define
UnknownFlagCalls ==
    {ArgsCall("unknown_flag", <<w_list>> \o Flat(o), {}) :
        o \in {x \in Orderings(OptionItems \cup {ItemPattern}
                                   \cup UnknownFlags, MaxItems) :
                  Has(x, ItemPattern) /\ HasOneOf(x, UnknownFlags)}}

\* the list command ending with an option that lacks its value
MissingValueCalls ==
    {ArgsCall("missing_value", <<w_list>> \o Flat(o) \o b, {}) :
        b \in BareOptions,
        o \in {x \in Orderings(OptionItems \cup {ItemPattern}, MaxItems) :
                  Has(x, ItemPattern)}}

GetRequestCalls ==
    OrderCalls \cup FirstNotListCalls \cup NoPositionalCalls
        \cup SecondPositionalCalls \cup UnknownFlagCalls
        \cup MissingValueCalls

CallGetRequestFromArgs ==
    /\ call.fn = "get_request_from_args"
    /\ ~call.done
    /\ call' = [call EXCEPT !.ret = get_request_from_args(call.arg.args),
                            !.done = TRUE]
    /\ UNCHANGED instance

\* Request::new: the values given for --max and --min, with the pattern "*"
BoundTexts ==
    {None, <<"0">>, <<"5">>, <<"0","0","7">>, <<"+","3">>, <<"-","1">>,
     <<"x">>, <<>>, <<"1",".","5">>, U32_MAX,
     <<"4","2","9","4","9","6","7","2","9","6">>}

RequestNewCalls ==
    {ToCall("Request_new", <<mx, mn>>) : mx \in BoundTexts, mn \in BoundTexts}

CallRequestNew ==
    /\ call.fn = "Request_new"
    /\ ~call.done
    /\ call' = [call EXCEPT
                  !.ret = Request_new(<<"*">>, None, call.arg[1], call.arg[2],
                                      FALSE),
                  !.done = TRUE]
    /\ UNCHANGED instance

CallInit ==
    /\ InitInstance
    /\ \/ call \in MatchesCalls
       \/ call \in HasExpiredCalls
       \/ call \in FormatDurationCalls
       \/ call \in PrivmsgMatchesCalls
       \/ call \in GetRequestCalls
       \/ call \in RequestNewCalls

CallNext ==
    \/ CallMatches
    \/ CallHasExpired
    \/ CallFormatDuration
    \/ CallPrivmsgMatches
    \/ CallGetRequestFromArgs
    \/ CallRequestNew

CallSpec == CallInit /\ [][CallNext]_vars


\* ------------------------------------------------------------------ claims
\* the step of Request::process that reads the cache (lines 118-130)
ReadStep == pc = "read" /\ pc' = "reply"

\* C1: at most one LIST is sent in one contiguous period of unavailability,
\* whoever sent it and however many queries joined it.
C1_OneRequestPerRefreshingPeriod == ~avail => hist.periodReqs <= 1

\* C2: whenever a query reads the cache, the listing is available and no
\* LIST is waiting for its RPL_LISTEND.
C2_NoPartialResults == [][ReadStep => (avail /\ pending = <<>>)]_vars

\* C3: while a LIST sent by a query's initiation is unanswered, the listing
\* is unavailable.
C3_UnavailableUntilOwnCompletion ==
    \A i \in 1..Len(pending) : pending[i].by = "query" => ~avail

\* C4: a query without the force flag that found the cache not expired has
\* sent no LIST and has not waited, and is past the wait.
C4_FreshQueryNeverBlocks ==
    (pc \in {"init", "lockwait", "waiting", "read", "reply"}
        /\ ~cur.force_update /\ ~expired)
    => (hist.qEmitted = 0 /\ ~hist.qWaited /\ pc \in {"read", "reply"})

C4_Witness ==
    pc = "reply" /\ ~cur.force_update /\ ~expired /\ ~avail /\ pending # <<>>

\* C5: a query that initiated a refresh reads the cache and returns only
\* after an RPL_LISTEND was processed after its initiation; until then it is
\* at the wait.
C5_InitiatorWaitsForCompletion ==
    (hist.qEmitted > 0 /\ ~hist.qCompleted) => pc \in {"lockwait", "waiting"}

C5_Witness == pc = "reply" /\ hist.qEmitted > 0 /\ hist.qWaited /\ expired

\* C6: once an RPL_LISTEND is processed after a query's initiation, the
\* query returns and its results are sent.
C6_CompletionWakesQuery ==
    (hist.qEmitted > 0 /\ hist.qCompleted) ~> (pc = "idle")

\* the completion is processed between the release of the lock after the
\* initiation and the lock of the wait
C6_Witness == pc = "lockwait" /\ hist.qCompleted /\ avail

\* C7 as stated: two force queries both submitted before either returned
\* send one LIST between them and read the cache of the same cycle.
C7_OneRequestForTwoQueries ==
    [][(ReadStep /\ hist.conc) =>
          (hist.prev.emitted + hist.qEmitted = 1 /\ ~hist.prev.completed)]_vars

\* C7 amended: each of the two sends its own LIST, and the second reads the
\* cache after an RPL_LISTEND processed after its own initiation, which is
\* after the first one read.
C7_OneRequestEach ==
    [][(ReadStep /\ hist.conc) =>
          /\ hist.prev.emitted = 1
          /\ hist.qEmitted = 1
          /\ hist.qCompleted
          /\ hist.prev.completed]_vars

C7_Witness == pc = "reply" /\ hist.conc /\ Len(result.lines) > 0

\* the state before any event or query
BeforeAnyStep ==
    /\ env = [msgs |-> 0, welcomed |-> FALSE, ticks |-> 0]
    /\ hist.nReq = 0

\* C8 as stated: initially the listing is available and the cache is empty.
C8_InitiallyAvailable == BeforeAnyStep => (avail /\ channels = <<>>)

\* C8 amended: initially the listing is unavailable and the cache is empty.
C8_InitiallyUnavailable == BeforeAnyStep => (~avail /\ channels = <<>>)

C8_Witness == BeforeAnyStep /\ pc = "idle" /\ ~avail /\ Len(channels) = 0

\* C9: whenever a query reads the cache, its entries all answer one LIST,
\* and last_fetch was stamped by the cycle of that LIST.
C9_NoTornCache ==
    [][ReadStep =>
          \A i \in 1..Len(hist.chanReq) : hist.chanReq[i] = hist.stampReq]_vars

\* the entry of a well-formed record
EntryOf(v) == [name |-> v[2], topic |-> v[4], users |-> StripZeros(v[3])]

EntriesOf(vs) == [i \in 1..Len(vs) |-> EntryOf(vs[i])]

\* the query "list * -f"
AllRequest ==
    [chan_pattern |-> <<"*">>, topic_pattern |-> None, max_users |-> None,
     min_users |-> None, force_update |-> TRUE]

\* C10: when RPL_LISTEND is processed, the cache holds exactly the N
\* well-formed records received since the reset, in arrival order; the query
\* "list * -f" reading the cache after the completion gets all N of them.
C10_RoundTrip ==
    [][/\ (avail' /\ Len(pending') < Len(pending)) =>
             channels' = EntriesOf(hist'.arrived)
       /\ (ReadStep /\ hist.qEmitted > 0 /\ cur = AllRequest) =>
             /\ Len(result'.lines) >= Len(hist.lastComplete)
             /\ \A i \in 1..Len(hist.lastComplete) :
                   result'.lines[i] =
                       Channel_to_string(EntryOf(hist.arrived[i]))]_vars

C10_Witness ==
    /\ pc = "reply" /\ cur = AllRequest /\ hist.qWaited
    /\ Len(hist.lastComplete) = 2
    /\ Len(result.lines) = 2

\* an optional sign "+", then one or more digits
IsNonNegInteger(s) ==
    LET body == IF Len(s) > 0 /\ s[1] = "+" THEN Tail(s) ELSE s
    IN  body # <<>> /\ \A i \in 1..Len(body) : IsDigit(body[i])

\* a record without exactly 4 fields, or whose count is not such a number
Malformed(v) == Len(v) # 4 \/ ~IsNonNegInteger(v[3])

\* the event loop handles the next RPL_LIST record, and it is malformed
MalformedRecordStep ==
    /\ pending # <<>>
    /\ Len(pending') = Len(pending)
    /\ pending'[1].n = pending[1].n + 1
    /\ Malformed(ServerRecord(pending[1].id, pending[1].n + 1))

\* a record of the listing in progress was malformed
MalformedInListing ==
    /\ pending # <<>>
    /\ \E k \in 1..pending[1].n : Malformed(ServerRecord(pending[1].id, k))

\* the event loop handles RPL_LISTEND
ListingCompleteStep == Len(pending') < Len(pending)

IsListCommand(msg) ==
    LET vec == split_whitespace(to_lowercase(msg))
    IN  vec # <<>> /\ vec[1] = w_list

\* privmsg_thread takes from the queue a list command that yields no Request
InvalidQueryStep ==
    /\ pc = "idle"
    /\ queue # <<>>
    /\ Len(queue') < Len(queue)
    /\ IsListCommand(Head(queue))
    /\ MsgKind[Head(queue)].tag # "list"

\* C12: a list command that yields no Request is answered with the usage
\* message, and privmsg_thread goes on to the next message of the queue.
C12_InvalidQueryGetsUsage ==
    [][InvalidQueryStep =>
          /\ hist'.handled = "usage"
          /\ pc' = "idle"
          /\ queue' = Tail(queue)]_vars

\* the messages that are well-formed list queries
IsQuery ==
    [m \in MsgTexts |->
        /\ IsListCommand(m)
        /\ get_request_from_args(split_whitespace(to_lowercase(m))).tag = "ok"]

\* privmsg_thread takes from the queue a message that is not such a query
NonQueryStep ==
    /\ pc = "idle"
    /\ queue # <<>>
    /\ Len(queue') < Len(queue)
    /\ ~IsQuery[Head(queue)]

\* the value of a decimal number
RECURSIVE NumVal(_)
NumVal(s) ==
    IF s = <<>> THEN 0
    ELSE NumVal(SubSeq(s, 1, Len(s) - 1)) * 10 + DigitVal(s[Len(s)])

\* C13: Channel::matches is true exactly when the name matches the name
\* pattern, the topic matches the topic pattern if there is one, the count is
\* at most max if there is one and at least min if there is one; with
\* min = max = n and nothing else to filter on, exactly the count n matches.
C13_MatchesIffAllCriteria ==
    (call.fn = "matches" /\ call.done) =>
        LET E == call.arg[1]
            Q == call.arg[2]
        IN  /\ call.ret =
                 (/\ Pattern_matches(Q.chan_pattern, E.name)
                  /\ \/ Q.topic_pattern = None
                     \/ Pattern_matches(Q.topic_pattern, E.topic)
                  /\ \/ Q.max_users = None
                     \/ NumVal(E.users) <= NumVal(Q.max_users)
                  /\ \/ Q.min_users = None
                     \/ NumVal(E.users) >= NumVal(Q.min_users))
            /\ (/\ Q.chan_pattern = <<"*">>
                /\ Q.topic_pattern = None
                /\ Q.max_users # None
                /\ Q.min_users = Q.max_users)
               => call.ret = (E.users = Q.max_users)

C13_Witness ==
    /\ call.fn = "matches"
    /\ call.done
    /\ call.ret = TRUE
    /\ call.arg[2].topic_pattern # None
    /\ call.arg[2].max_users = call.arg[1].users
    /\ call.arg[2].min_users = call.arg[1].users

\* C14: has_expired is true exactly when more than 300 seconds have gone by
\* since last_fetch: false when none has (right after reset or
\* set_timestamp), false at 300 seconds, true at 301.
C14_ExpiredIffOver300 ==
    (call.fn = "has_expired" /\ call.done) =>
        LET age == call.arg[1] - call.arg[2]
        IN  /\ call.ret = (age > 300)
            /\ (age = 0 => call.ret = FALSE)
            /\ (age = 300 => call.ret = FALSE)
            /\ (age = 301 => call.ret = TRUE)

C14_Witness ==
    /\ call.fn = "has_expired"
    /\ call.done
    /\ call.arg[1] - call.arg[2] = 300
    /\ call.ret = FALSE

\* two texts that differ in letter case only
SameButCase(a, b) == to_lowercase(a) = to_lowercase(b)

\* C15: two channels whose names and topics differ in letter case only are
\* both among the results of a message or both left out, and two messages
\* that differ in letter case only give the same results.
C15_CaseInsensitive ==
    (call.fn = "privmsg_matches" /\ call.done) =>
        /\ (/\ SameButCase(call.arg[1].name, call.arg[2].name)
            /\ SameButCase(call.arg[1].topic, call.arg[2].topic))
           => call.ret[1] = call.ret[2]
        /\ SameButCase(call.arg[3], call.arg[4]) => call.ret[1] = call.ret[3]

\* C16: handling a message that is not a well-formed list query ends in that
\* step, without a call of Request::process, and leaves the availability,
\* the cache entries and last_fetch as they were; no LIST is sent.
C16_NonQueryLeavesStateAlone ==
    [][NonQueryStep =>
          /\ pc' \in {"idle", "dead"}
          /\ avail' = avail
          /\ channels' = channels
          /\ last_fetch' = last_fetch
          /\ pending' = pending
          /\ hist'.nReq = hist.nReq]_vars

\* the usage message was sent while the first listing was coming in
C16_Witness ==
    /\ hist.handled = "usage"
    /\ pc = "idle"
    /\ ~avail
    /\ pending # <<>>
    /\ Len(channels) = 1

\* C17: a cache age of 60 seconds or more is rendered as its minutes and
\* seconds, a smaller one as its seconds.
C17_MinutesAndSeconds ==
    (call.fn = "format_duration" /\ call.done) =>
        IF call.arg >= 60
        THEN /\ Len(call.ret) = 4
             /\ call.ret[2] = "min"
             /\ call.ret[3] < 60
             /\ call.ret[1] * 60 + call.ret[3] = call.arg
        ELSE call.ret = <<call.arg, "s">>

\* C18: get_request_from_args returns an error when the first token is not
\* the list command, when there is no positional pattern, when there are two
\* positional arguments, when a flag is unknown, and when an option that
\* takes a value has none.
C18_BadArgumentsGiveError ==
    (/\ call.fn = "get_request_from_args"
     /\ call.done
     /\ call.arg.kind \in {"first_not_list", "no_positional",
                           "second_positional", "unknown_flag",
                           "missing_value"})
    => call.ret = [tag |-> "err", req |-> NoRequest]

C18_Witness ==
    /\ call.fn = "get_request_from_args"
    /\ call.done
    /\ call.arg.kind = "first_not_list"
    /\ \E i \in 2..Len(call.arg.args) : call.arg.args[i] = w_list
    /\ call.ret.tag = "err"

\* the digits of a non-negative integer, without sign and leading zeros
BoundValue(s) ==
    IF s = None THEN None
    ELSE StripZeros(IF s[1] = "+" THEN Tail(s) ELSE s)

\* C19 as stated: Request::new succeeds exactly when each bound given is a
\* non-negative integer, with that value as the bound and no bound where
\* none is given; otherwise it returns an error.
C19_BoundIffNonNegInteger ==
    (call.fn = "Request_new" /\ call.done) =>
        IF /\ (call.arg[1] = None \/ IsNonNegInteger(call.arg[1]))
           /\ (call.arg[2] = None \/ IsNonNegInteger(call.arg[2]))
        THEN /\ call.ret.tag = "ok"
             /\ call.ret.req.max_users = BoundValue(call.arg[1])
             /\ call.ret.req.min_users = BoundValue(call.arg[2])
        ELSE call.ret.tag = "err"

\* a non-negative integer that is at most u32::MAX
IsU32(s) == IsNonNegInteger(s) /\ NumLeq(BoundValue(s), U32_MAX)

\* C19 amended: Request::new succeeds exactly when each bound given is a
\* non-negative integer of at most 4294967295, with that value as the bound
\* and no bound where none is given; otherwise it returns an error.
C19_BoundIffU32 ==
    (call.fn = "Request_new" /\ call.done) =>
        IF /\ (call.arg[1] = None \/ IsU32(call.arg[1]))
           /\ (call.arg[2] = None \/ IsU32(call.arg[2]))
        THEN /\ call.ret.tag = "ok"
             /\ call.ret.req.max_users = BoundValue(call.arg[1])
             /\ call.ret.req.min_users = BoundValue(call.arg[2])
        ELSE call.ret = [tag |-> "err", req |-> NoRequest]

C19_Witness ==
    /\ call.fn = "Request_new"
    /\ call.done
    /\ call.arg[1] = U32_MAX
    /\ call.arg[2] = <<"0">>
    /\ call.ret.tag = "ok"
    /\ call.ret.req.min_users = <<"0">>

\* the Request that the pattern and the options of a set of items stand for
ExpectedRequest(items) ==
    [chan_pattern |-> w_pat,
     topic_pattern |-> IF ItemTopic \in items THEN <<"x">> ELSE None,
     max_users |-> IF ItemMax \in items THEN <<"5">> ELSE None,
     min_users |-> IF ItemMin \in items THEN <<"2">> ELSE None,
     force_update |-> ItemForce \in items]

\* C20: whatever the order of the pattern and of the options after the list
\* command, get_request_from_args returns the same Request.
C20_OptionOrderIrrelevant ==
    (/\ call.fn = "get_request_from_args"
     /\ call.done
     /\ call.arg.kind = "order")
    => call.ret = [tag |-> "ok", req |-> ExpectedRequest(call.arg.items)]

\* all four options, the pattern last
C20_Witness ==
    /\ call.fn = "get_request_from_args"
    /\ call.done
    /\ call.arg.kind = "order"
    /\ Cardinality(call.arg.items) = 5
    /\ call.arg.args[Len(call.arg.args)] = w_pat
    /\ call.ret.tag = "ok"
    /\ call.ret.req.force_update

\* the step of Request::process that initiates a refresh (lines 103-110)
InitiateStep == pc = "init" /\ pc' = "lockwait"

\* the event loop handles an RPL_LIST record
RecordStep ==
    /\ pending # <<>>
    /\ Len(pending') = Len(pending)
    /\ pending'[1].n = pending[1].n + 1

\* the event loop handles RPL_WELCOME
WelcomeStep == ~env.welcomed /\ env'.welcomed

\* C21: the initiation of a refresh is one step: the listing is made
\* unavailable, the entries are cleared, last_fetch is set to now and exactly
\* one LIST is sent, and no RPL_LIST record or RPL_LISTEND is handled within
\* that step.
C21_InitiationAtomic ==
    [][InitiateStep =>
          /\ avail' = FALSE
          /\ channels' = <<>>
          /\ last_fetch' = now
          /\ Len(pending') = Len(pending) + 1
          /\ SubSeq(pending', 1, Len(pending)) = pending
          /\ pending'[Len(pending')].by = "query"
          /\ pending'[Len(pending')].n = 0
          /\ hist'.nReq = hist.nReq + 1]_vars

\* an expired cache with entries was reset by the initiation
C21_Witness ==
    /\ pc = "lockwait"
    /\ expired
    /\ hist.qEmitted = 1
    /\ ~avail
    /\ channels = <<>>
    /\ last_fetch = now
    /\ now > 0

\* C22: the availability changes in two steps only: RPL_LISTEND makes it
\* true and the initiation of a refresh makes it false; an RPL_LIST record
\* and RPL_WELCOME leave it as it is.
C22_AvailabilityTransitions ==
    [][/\ (avail' # avail) =>
             \/ ListingCompleteStep /\ avail'
             \/ InitiateStep /\ ~avail'
       /\ RecordStep => avail' = avail
       /\ WelcomeStep => avail' = avail]_vars

\* the listing was made available, and unavailable again by a query
C22_Witness ==
    /\ pc = "lockwait"
    /\ ~avail
    /\ hist.periodReqs = 1
    /\ hist.nReq > 1

\* C23: RPL_WELCOME sends exactly one LIST, whether the cache has expired or
\* not, and leaves the availability, the entries and last_fetch as they were.
C23_WelcomeEmitsOneRequest ==
    [][WelcomeStep =>
          /\ Len(pending') = Len(pending) + 1
          /\ SubSeq(pending', 1, Len(pending)) = pending
          /\ pending'[Len(pending')].by = "welcome"
          /\ hist'.nReq = hist.nReq + 1
          /\ avail' = avail
          /\ channels' = channels
          /\ last_fetch' = last_fetch]_vars

\* RPL_WELCOME was handled with an expired cache
C23_Witness ==
    /\ env.welcomed
    /\ env.msgs = 0
    /\ has_expired(now, last_fetch)
    /\ Len(pending) = 1
    /\ pending[1].n = 0
    /\ hist.nReq = 1

\* the entries of the cache that match the request, as they are sent
MatchingEntries(chans, request) ==
    LET Test(c) == matches(c, request)
        sel == SelectSeq(chans, Test)
    IN  [i \in 1..Len(sel) |-> Channel_to_string(sel[i])]

\* C24: the result of Request::process is the entries of the cache that
\* match the request, in the order of the cache, with the age of the cache
\* in that same state: the entries and last_fetch are read in one step.
C24_ResultIsFilteredCache ==
    [][ReadStep =>
          /\ result'.lines = MatchingEntries(channels, cur)
          /\ result'.elapsed = now - last_fetch
          /\ channels' = channels
          /\ last_fetch' = last_fetch
          /\ pending' = pending]_vars

\* one entry of two matches
C24_Witness ==
    /\ pc = "reply"
    /\ Len(channels) = 2
    /\ Len(result.lines) = 1
    /\ cur.min_users # None

\* C25: while the query waits for the listing the mutex is free, and the
\* event loop can handle the RPL_LISTEND of the LIST in progress.
C25_WaitingQueryHoldsNoLock ==
    (pc = "waiting") =>
        /\ lock = "free"
        /\ (loop = "running" /\ pending # <<>>) => ENABLED OnListingComplete

\* RPL_LISTEND was handled while the query was blocked in cnd.wait
C25_Witness == pc = "waiting" /\ avail /\ woken

\* C26: a message is taken from the queue only when privmsg_thread is back at
\* mr.recv(), after the replies to the message before; it is the oldest of
\* the queue, and a message that arrives is queued behind the others.
C26_OneQueryAtATime ==
    [][/\ (Len(queue') < Len(queue)) =>
             /\ pc = "idle"
             /\ (pc' # "dead" => queue' = Tail(queue))
             /\ (pc' = "check" => cur' = MsgKind[Head(queue)].req)
       /\ (Len(queue') > Len(queue)) =>
             SubSeq(queue', 1, Len(queue)) = queue
       /\ (pc # "check" /\ pc' = "check") =>
             (pc = "idle" /\ Len(queue') < Len(queue))
       /\ (pc # "idle" /\ pc' = "idle") => pc = "reply"]_vars

\* a query waits for the listing and the next query waits in the queue
C26_Witness ==
    /\ pc = "waiting"
    /\ queue # <<>>
    /\ MsgKind[Head(queue)].tag = "list"

\* C27: whatever the text of a private message, privmsg_thread answers it,
\* with the results, the usage message or the introduction, and goes on.
C27_EveryTextAnswered ==
    [][(Len(queue') < Len(queue)) =>
          /\ pc' # "dead"
          /\ \/ pc' = "check"
             \/ hist'.handled \in {"usage", "introduce"}]_vars

=============================================================================
